---- MODULE Spec2Model ----
(***************************************************************************)
(* The SSE bridge of src-tauri/src/app.rs: the shared SseState (two        *)
(* AtomicU64), the async command sse_connect (one task per call) and the   *)
(* async command sse_disconnect.                                           *)
(*                                                                         *)
(* Tauri runs async commands on the multi-threaded tokio runtime, so the   *)
(* tasks interleave at every atomic access and at every .await.  Each      *)
(* action below is one such step of one task: the atomic access or the     *)
(* resolution of the await, together with the task-local code that follows *)
(* it up to the next atomic access or await.                               *)
(*                                                                         *)
(* Text is a sequence of Unicode code points, a chunk a sequence of byte   *)
(* values.  The u64 counters never get near 2^64 within MaxCalls calls, so *)
(* fetch_add is modelled without its wrap-around.                          *)
(***************************************************************************)
EXTENDS Integers, Sequences, FiniteSets, TLC

\* ---------------------------------------------------------------- bounds

\* Number of sse_connect calls made during a run.
MaxCalls == 2

\* Number of data chunks the servers deliver during a run (all connections).
MaxChunks == 2

Calls == 1..MaxCalls

\* ------------------------------------------------------------ characters

LF == 10
CR == 13
REPLACEMENT == 65533

\* "data:"
DataPrefix == <<100, 97, 116, 97, 58>>

\* char::is_whitespace (White_Space) restricted to code points below U+0800,
\* the ones the chunks of this model can decode to.
IsWhitespace(c) == c \in {9, 10, 11, 12, 13, 32, 133, 160}

\* ------------------------------------------------------- string helpers

\* String::from_utf8_lossy on bytes below 0xE0: ASCII is kept, a two-byte
\* sequence (lead 0xC2..0xDF, continuation 0x80..0xBF) is one code point,
\* and every other byte is one U+FFFD.
RECURSIVE Utf8Lossy(_)
Utf8Lossy(b) ==
    IF b = <<>> THEN <<>>
    ELSE IF b[1] < 128 THEN <<b[1]>> \o Utf8Lossy(Tail(b))
    ELSE IF /\ b[1] >= 194 /\ b[1] <= 223
            /\ Len(b) >= 2 /\ b[2] >= 128 /\ b[2] <= 191
         THEN <<(b[1] - 192) * 64 + (b[2] - 128)>>
                  \o Utf8Lossy(SubSeq(b, 3, Len(b)))
    ELSE <<REPLACEMENT>> \o Utf8Lossy(Tail(b))

\* buffer.find('\n'): the index of the first LF, 0 for None.
Find(s, c) ==
    IF \E i \in 1..Len(s) : s[i] = c
    THEN CHOOSE i \in 1..Len(s) : s[i] = c /\ \A j \in 1..(i - 1) : s[j] # c
    ELSE 0

\* line.trim_end_matches('\r'): every trailing CR is removed.
RECURSIVE TrimEndMatches(_, _)
TrimEndMatches(s, c) ==
    IF s # <<>> /\ s[Len(s)] = c
    THEN TrimEndMatches(SubSeq(s, 1, Len(s) - 1), c)
    ELSE s

\* line.strip_prefix("data:") is Some
HasPrefix(s, p) == Len(s) >= Len(p) /\ SubSeq(s, 1, Len(p)) = p

StripPrefix(s, p) == SubSeq(s, Len(p) + 1, Len(s))

RECURSIVE TrimStart(_)
TrimStart(s) ==
    IF s # <<>> /\ IsWhitespace(s[1]) THEN TrimStart(Tail(s)) ELSE s

RECURSIVE TrimEnd(_)
TrimEnd(s) ==
    IF s # <<>> /\ IsWhitespace(s[Len(s)])
    THEN TrimEnd(SubSeq(s, 1, Len(s) - 1))
    ELSE s

\* A variant of Trim: str::trim_start, the trailing whitespace is kept.
Trim_StartOnly(s) == TrimStart(s)

\* str::trim: leading and trailing whitespace removed.
Trim(s) == TrimEnd(TrimStart(s))

\* --------------------------------------------------------------- events

\* The text of an event is the sequence of the parts it is formatted from.
Connected == [event |-> "Connected", raw |-> <<>>, text |-> <<>>]
Message(raw) == [event |-> "Message", raw |-> raw, text |-> <<>>]
Disconnected(reason) ==
    [event |-> "Disconnected", raw |-> <<>>, text |-> <<reason>>]
Error(message) == [event |-> "Error", raw |-> <<>>, text |-> message]

ByClient == "Disconnected by client"
StreamEnded == "Stream ended"

READ_TIMEOUT == 90

\* The decimal digits of n, as "{}" formats an integer.
Digit(d) ==
    CASE d = 0 -> "0" [] d = 1 -> "1" [] d = 2 -> "2" [] d = 3 -> "3"
      [] d = 4 -> "4" [] d = 5 -> "5" [] d = 6 -> "6" [] d = 7 -> "7"
      [] d = 8 -> "8" [] d = 9 -> "9"

RECURSIVE Decimal(_)
Decimal(n) ==
    IF n < 10 THEN <<Digit(n)>> ELSE Decimal(n \div 10) \o <<Digit(n % 10)>>

\* format!("SSE connection failed: {}", e), the error left abstract
ConnectFailedMessage == <<"SSE connection failed: ", "e">>

\* format!("SSE server returned {}", status), the status left abstract
StatusMessage == <<"SSE server returned ", "status">>

\* format!("SSE stream error: {}", e), the error left abstract
StreamErrorMessage == <<"SSE stream error: ", "e">>

\* format!("SSE read timeout ({}s without data)", READ_TIMEOUT.as_secs())
ReadTimeoutMessage ==
    <<"SSE read timeout (">> \o Decimal(READ_TIMEOUT) \o <<"s without data)">>

\* ------------------------------------------------------- line processing

\* A variant of FeedLine: a data: line without payload clears event_data.
FeedLine_NoDataResets(raw_line, event_data) ==
    LET line == TrimEndMatches(raw_line, CR) IN
    IF HasPrefix(line, DataPrefix)
    THEN LET data == Trim(StripPrefix(line, DataPrefix)) IN
         IF data # <<>>
         THEN [event_data |-> IF event_data # <<>>
                              THEN event_data \o <<LF>> \o data
                              ELSE data,
               sent |-> <<>>]
         ELSE [event_data |-> <<>>, sent |-> <<>>]
    ELSE IF line = <<>>
    THEN IF event_data # <<>>
         THEN [event_data |-> <<>>, sent |-> <<Message(event_data)>>]
         ELSE [event_data |-> event_data, sent |-> <<>>]
    ELSE [event_data |-> event_data, sent |-> <<>>]

\* One line of the while-let loop: the new event_data and the Messages sent.
FeedLine(raw_line, event_data) ==
    LET line == TrimEndMatches(raw_line, CR) IN
    IF HasPrefix(line, DataPrefix)
    THEN LET data == Trim(StripPrefix(line, DataPrefix)) IN
         IF data # <<>>
         THEN [event_data |-> IF event_data # <<>>
                              THEN event_data \o <<LF>> \o data
                              ELSE data,
               sent |-> <<>>]
         ELSE [event_data |-> event_data, sent |-> <<>>]
    ELSE IF line = <<>>
    THEN IF event_data # <<>>
         THEN [event_data |-> <<>>, sent |-> <<Message(event_data)>>]
         ELSE [event_data |-> event_data, sent |-> <<>>]
    ELSE [event_data |-> event_data, sent |-> <<>>]

\* while let Some(newline_pos) = buffer.find('\n') { ... }
RECURSIVE DrainLines(_, _, _)
DrainLines(buffer, event_data, sent) ==
    LET newline_pos == Find(buffer, LF) IN
    IF newline_pos = 0
    THEN [buffer |-> buffer, event_data |-> event_data, sent |-> sent]
    ELSE LET fed == FeedLine(SubSeq(buffer, 1, newline_pos - 1), event_data)
         IN DrainLines(SubSeq(buffer, newline_pos + 1, Len(buffer)),
                       fed.event_data, sent \o fed.sent)

\* The Ok(Some(Ok(chunk))) arm.
OnChunk(chunk, buffer, event_data) ==
    DrainLines(buffer \o Utf8Lossy(chunk), event_data, <<>>)

\* ---------------------------------------------------------------- state

VARIABLES
    current_id,   \* SseState.current_id: the last id handed out
    active_id,    \* SseState.active_id: the live connection's id, 0 for none
    pc,           \* per sse_connect call: where the task stands
    conn_id,      \* per call: its local conn_id (0 before it is assigned)
    ret,          \* per call: "none" while running, then "Ok" or "Err"
    events,       \* per call: what it sent on its on_event channel, in order
    buffer,       \* per call: its local buffer
    event_data,   \* per call: its local event_data
    received,     \* history: per call, the decoded text of its chunks so far
    cancelled,    \* history: calls whose id was assigned when a disconnect ran
    last_op,      \* history: the command the last step belonged to
    late,         \* history: per call, the Messages of the chunks that
                  \* arrived while active_id was not its id
    cause,        \* history: per call, what made it return ("none" before)
    chunks_left,  \* data chunks the servers may still deliver
    framer,       \* the line framing alone, fed a byte sequence in chunks
    assembler     \* the event assembly alone, fed lines

\* The two parts of sse_connect's loop taken alone, for the specifications
\* FrameSpec and AssembleSpec; Spec leaves them as they are.
parts == <<framer, assembler>>

vars == <<current_id, active_id, pc, conn_id, ret, events, buffer, event_data,
          received, cancelled, last_op, late, cause, chunks_left,
          framer, assembler>>

\* What the servers send, as the transport cuts it into chunks:
\* "data: a\n" and "\ndata:b\r\n\r\ndata:d".
ChunkA == <<100, 97, 116, 97, 58, 32, 97, 10>>
ChunkB == <<10, 100, 97, 116, 97, 58, 98, 13, 10, 13, 10,
            100, 97, 116, 97, 58, 100>>

Chunks == {ChunkA, ChunkB}

\* A chunk of no bytes: the stream goes on without changing anything, so a
\* stream may go on for ever.
ChunkEmpty == <<>>

\* The framer and the assembler before anything is fed to them.
FramerIdle == [bytes |-> <<>>, rest |-> <<>>, buffer |-> <<>>, lines |-> <<>>]
AssemblerIdle == [lines |-> <<>>, event_data |-> <<>>, sent |-> <<>>]

\* SseState::default() and no command invoked yet.
Idle ==
    /\ current_id = 0
    /\ active_id = 0
    /\ pc = [t \in Calls |-> "idle"]
    /\ conn_id = [t \in Calls |-> 0]
    /\ ret = [t \in Calls |-> "none"]
    /\ events = [t \in Calls |-> <<>>]
    /\ buffer = [t \in Calls |-> <<>>]
    /\ event_data = [t \in Calls |-> <<>>]
    /\ received = [t \in Calls |-> <<>>]
    /\ cancelled = {}
    /\ last_op = "none"
    /\ late = [t \in Calls |-> <<>>]
    /\ cause = [t \in Calls |-> "none"]
    /\ chunks_left = MaxChunks

Init == Idle /\ framer = FramerIdle /\ assembler = AssemblerIdle

\* ----------------------------------------------------------- sse_connect

\* A variant of IssueId: the value fetch_add returns is used as it is.
IssueId_Previous(cur) == cur

\* current_id.fetch_add(1) + 1
IssueId(cur) == cur + 1

\* A variant of IsCurrent: only a newer connection ends this one, the 0 a
\* disconnect stores does not.
IsCurrent_UnlessSuperseded(active, id) == active = id \/ active = 0

\* active_id.load() != conn_id is false
IsCurrent(active, id) == active = id

\* The task sends `sent` on its channel and goes on at `next`.
Emit(t, sent, next) ==
    /\ events' = [events EXCEPT ![t] = @ \o sent]
    /\ pc' = [pc EXCEPT ![t] = next]
    /\ UNCHANGED <<ret, cause>>

\* The task sends `sent` on its channel and returns `result`, because of
\* `why`.
Return(t, sent, result, why) ==
    /\ events' = [events EXCEPT ![t] = @ \o sent]
    /\ pc' = [pc EXCEPT ![t] = "done"]
    /\ ret' = [ret EXCEPT ![t] = result]
    /\ cause' = [cause EXCEPT ![t] = why]

\* The command is invoked and its first statement runs: the fetch_add.
\* The calls are numbered in the order of their fetch_add.
FetchAdd(t) ==
    /\ pc[t] = "idle"
    /\ \A u \in Calls : u < t => pc[u] # "idle"
    /\ current_id' = IssueId(current_id)
    /\ conn_id' = [conn_id EXCEPT ![t] = IssueId(current_id)]
    /\ pc' = [pc EXCEPT ![t] = "store"]
    /\ last_op' = "connect"
    /\ UNCHANGED <<active_id, ret, events, buffer, event_data, received,
                   cancelled, cause, chunks_left, late, parts>>

\* active_id.store(conn_id), then the client is built: on a build error the
\* command returns Err at once, otherwise the request is sent and awaited.
StoreActive(t) ==
    /\ pc[t] = "store"
    /\ active_id' = conn_id[t]
    /\ \E built \in BOOLEAN :
          IF built THEN Emit(t, <<>>, "send")
          ELSE Return(t, <<>>, "Err", "build")
    /\ last_op' = "connect"
    /\ UNCHANGED <<current_id, conn_id, buffer, event_data, received,
                   cancelled, chunks_left, late, parts>>

\* What the command does with the outcome of req.send().await: a transport
\* error, a non-success status, or a success status.
OnResponse(outcome) ==
    CASE outcome = "failed" ->
           [sent |-> <<Error(ConnectFailedMessage)>>, result |-> "Err"]
      [] outcome = "status" ->
           [sent |-> <<Error(StatusMessage)>>, result |-> "Err"]
      [] outcome = "success" ->
           [sent |-> <<Connected>>, result |-> "none"]

\* A variant of SendResolves: a call whose handshake fails withdraws its
\* registration.
SendResolves_Unregisters(t) ==
    /\ pc[t] = "send"
    /\ \E outcome \in {"failed", "status", "success"} :
          LET o == OnResponse(outcome) IN
          IF o.result = "none"
          THEN Emit(t, o.sent, "check") /\ UNCHANGED active_id
          ELSE /\ Return(t, o.sent, o.result, outcome)
               /\ active_id' = IF active_id = conn_id[t] THEN 0 ELSE active_id
    /\ last_op' = "connect"
    /\ UNCHANGED <<current_id, conn_id, buffer, event_data,
                   received, cancelled, chunks_left, late, parts>>

\* req.send().await resolves; on success the loop is entered.
SendResolves(t) ==
    /\ pc[t] = "send"
    /\ \E outcome \in {"failed", "status", "success"} :
          LET o == OnResponse(outcome) IN
          IF o.result = "none" THEN Emit(t, o.sent, "check")
          ELSE Return(t, o.sent, o.result, outcome)
    /\ last_op' = "connect"
    /\ UNCHANGED <<current_id, active_id, conn_id, buffer, event_data,
                   received, cancelled, chunks_left, late, parts>>

\* What the top of the loop does with the result of the test.
OnCheck(current) ==
    IF current THEN [sent |-> <<>>, result |-> "none"]
    ELSE [sent |-> <<Disconnected(ByClient)>>, result |-> "Ok"]

\* The top of the loop: the load of active_id and the test against conn_id.
LivenessCheck(t) ==
    /\ pc[t] = "check"
    /\ LET o == OnCheck(IsCurrent(active_id, conn_id[t])) IN
       IF o.result = "none" THEN Emit(t, o.sent, "await")
       ELSE Return(t, o.sent, o.result, "cancelled")
    /\ last_op' = "connect"
    /\ UNCHANGED <<current_id, active_id, conn_id, buffer, event_data,
                   received, cancelled, chunks_left, late, parts>>

\* A variant of ChunkArrives: the chunk of a call that is not the active one
\* any more is received and thrown away.
ChunkArrives_UnlessCancelled(t) ==
    /\ pc[t] = "await"
    /\ \E chunk \in Chunks \cup {ChunkEmpty} :
          LET out == IF IsCurrent(active_id, conn_id[t])
                     THEN OnChunk(chunk, buffer[t], event_data[t])
                     ELSE [buffer |-> buffer[t], event_data |-> event_data[t],
                           sent |-> <<>>] IN
          /\ chunk # ChunkEmpty => chunks_left > 0
          /\ buffer' = [buffer EXCEPT ![t] = out.buffer]
          /\ event_data' = [event_data EXCEPT ![t] = out.event_data]
          /\ received' = [received EXCEPT ![t] = @ \o Utf8Lossy(chunk)]
          /\ late' = [late EXCEPT ![t] = IF active_id = conn_id[t] THEN @
                                         ELSE @ \o out.sent]
          /\ Emit(t, out.sent, "check")
          /\ chunks_left' = IF chunk = ChunkEmpty THEN chunks_left
                            ELSE chunks_left - 1
    /\ last_op' = "connect"
    /\ UNCHANGED <<current_id, active_id, conn_id, cancelled, parts>>

\* timeout(READ_TIMEOUT, stream.next()).await resolves to Ok(Some(Ok(chunk))):
\* the chunk is decoded, appended and every complete line is processed.
ChunkArrives(t) ==
    /\ pc[t] = "await"
    /\ \E chunk \in Chunks \cup {ChunkEmpty} :
          LET out == OnChunk(chunk, buffer[t], event_data[t]) IN
          /\ chunk # ChunkEmpty => chunks_left > 0
          /\ buffer' = [buffer EXCEPT ![t] = out.buffer]
          /\ event_data' = [event_data EXCEPT ![t] = out.event_data]
          /\ received' = [received EXCEPT ![t] = @ \o Utf8Lossy(chunk)]
          /\ late' = [late EXCEPT ![t] = IF active_id = conn_id[t] THEN @
                                         ELSE @ \o out.sent]
          /\ Emit(t, out.sent, "check")
          /\ chunks_left' = IF chunk = ChunkEmpty THEN chunks_left
                            ELSE chunks_left - 1
    /\ last_op' = "connect"
    /\ UNCHANGED <<current_id, active_id, conn_id, cancelled, parts>>

\* A variant of EndOfStream: the pending data is dropped.
EndOfStream_NoFlush(pending) == <<Disconnected(StreamEnded)>>

\* A variant of EndOfStream: the notice is sent before the pending data.
EndOfStream_NoticeFirst(pending) ==
    <<Disconnected(StreamEnded)>>
        \o (IF pending # <<>> THEN <<Message(pending)>> ELSE <<>>)

\* What the Ok(None) arm sends: the pending event_data, then the notice.
EndOfStream(pending) ==
    (IF pending # <<>> THEN <<Message(pending)>> ELSE <<>>)
        \o <<Disconnected(StreamEnded)>>

\* A variant of OnStop: after a read error or the timeout, Error is sent
\* and the command returns Ok.
OnStop_ErrorReturnsOk(outcome, pending) ==
    CASE outcome = "error" ->
           [sent |-> <<Error(StreamErrorMessage)>>, result |-> "Ok"]
      [] outcome = "end" ->
           [sent |-> EndOfStream(pending), result |-> "Ok"]
      [] outcome = "timeout" ->
           [sent |-> <<Error(ReadTimeoutMessage)>>, result |-> "Ok"]

\* A variant of OnStop: the timeout is reported as a read error, without
\* its duration.
OnStop_TimeoutUnnamed(outcome, pending) ==
    CASE outcome = "error" ->
           [sent |-> <<Error(StreamErrorMessage)>>, result |-> "Err"]
      [] outcome = "end" ->
           [sent |-> EndOfStream(pending), result |-> "Ok"]
      [] outcome = "timeout" ->
           [sent |-> <<Error(StreamErrorMessage)>>, result |-> "Err"]

\* A variant of OnStop: the pending data is sent before the Error as well.
OnStop_FlushOnError(outcome, pending) ==
    CASE outcome = "error" ->
           [sent |-> (IF pending # <<>> THEN <<Message(pending)>> ELSE <<>>)
                         \o <<Error(StreamErrorMessage)>>,
            result |-> "Err"]
      [] outcome = "end" ->
           [sent |-> EndOfStream(pending), result |-> "Ok"]
      [] outcome = "timeout" ->
           [sent |-> (IF pending # <<>> THEN <<Message(pending)>> ELSE <<>>)
                         \o <<Error(ReadTimeoutMessage)>>,
            result |-> "Err"]

\* The arms Ok(Some(Err(e))), Ok(None) and Err(Elapsed) of the match.
OnStop(outcome, pending) ==
    CASE outcome = "error" ->
           [sent |-> <<Error(StreamErrorMessage)>>, result |-> "Err"]
      [] outcome = "end" ->
           [sent |-> EndOfStream(pending), result |-> "Ok"]
      [] outcome = "timeout" ->
           [sent |-> <<Error(ReadTimeoutMessage)>>, result |-> "Err"]

\* A variant of StreamStops: what is left in the buffer counts as a last
\* line.
StreamStops_FeedsRemainder(t) ==
    /\ pc[t] = "await"
    /\ \E outcome \in {"error", "end", "timeout"} :
          LET fed == FeedLine(buffer[t], event_data[t])
              o == OnStop(outcome, fed.event_data)
          IN Return(t, o.sent, o.result, outcome)
    /\ last_op' = "connect"
    /\ UNCHANGED <<current_id, active_id, conn_id, buffer, event_data,
                   received, cancelled, chunks_left, late, parts>>

\* The await resolves to a read error, to the end of the stream, or to the
\* timeout.
StreamStops(t) ==
    /\ pc[t] = "await"
    /\ \E outcome \in {"error", "end", "timeout"} :
          LET o == OnStop(outcome, event_data[t]) IN
          Return(t, o.sent, o.result, outcome)
    /\ last_op' = "connect"
    /\ UNCHANGED <<current_id, active_id, conn_id, buffer, event_data,
                   received, cancelled, chunks_left, late, parts>>

\* -------------------------------------------------------- sse_disconnect

\* The calls whose conn_id has been assigned.
Issued == {t \in Calls : pc[t] # "idle"}

\* A variant of Disconnect: the id counter is reset as well.
Disconnect_ResetsCounter ==
    /\ active_id' = 0
    /\ current_id' = 0
    /\ cancelled' = Issued
    /\ last_op' = "disconnect"
    /\ UNCHANGED <<pc, conn_id, ret, events, buffer, event_data,
                   received, cause, chunks_left, late, parts>>

\* active_id.store(0); Ok(())
Disconnect ==
    /\ active_id' = 0
    /\ cancelled' = Issued
    /\ last_op' = "disconnect"
    /\ UNCHANGED <<current_id, pc, conn_id, ret, events, buffer, event_data,
                   received, cause, chunks_left, late, parts>>

\* ---------------------------------------------------------- specification

\* A step of the task of an invoked command.
TaskStep(t) ==
    \/ StoreActive(t)
    \/ SendResolves(t)
    \/ LivenessCheck(t)
    \/ ChunkArrives(t)
    \/ StreamStops(t)

\* The front end invokes sse_connect and sse_disconnect as it likes.
Next ==
    \/ \E t \in Calls : FetchAdd(t)
    \/ \E t \in Calls : TaskStep(t)
    \/ Disconnect

Spec == Init /\ [][Next]_vars

\* The runtime schedules every task that can run, and every await of a
\* running task resolves (the one of the next chunk after READ_TIMEOUT at
\* the latest).  Nothing obliges the front end to invoke a command.
LiveSpec == Spec /\ \A t \in Calls : WF_vars(TaskStep(t))

\* ------------------------------------------------ the line framing alone

\* Length of the byte sequences fed to the line framing.
MaxFrameLen == 3

\* LF, CR, "a", and the two bytes of U+00E9
FrameBytes == {LF, CR, 97, 195, 169}

\* The sequences over S of length n at most.
SeqsUpTo(S, n) == UNION {[1..k -> S] : k \in 0..n}

\* The state of the bridge proper, which the parts taken alone leave as it is.
bridge == <<current_id, active_id, pc, conn_id, ret, events, buffer,
            event_data, received, cancelled, last_op, late, cause,
            chunks_left>>

\* The while-let loop as far as the lines go: the text up to the first LF is
\* cut off the buffer and its trailing CRs are removed, until no LF is left.
RECURSIVE SplitLines(_, _)
SplitLines(buf, lines) ==
    LET newline_pos == Find(buf, LF) IN
    IF newline_pos = 0
    THEN [buffer |-> buf, lines |-> lines]
    ELSE SplitLines(SubSeq(buf, newline_pos + 1, Len(buf)),
                    lines \o <<TrimEndMatches(SubSeq(buf, 1, newline_pos - 1),
                                              CR)>>)

\* A chunk is decoded by itself, appended to the buffer, and the lines are
\* cut off.
PushChunk(chunk, buf) == SplitLines(buf \o Utf8Lossy(chunk), <<>>)

\* Any byte sequence is about to arrive, in chunks.
FrameInit ==
    /\ Idle
    /\ assembler = AssemblerIdle
    /\ \E bytes \in SeqsUpTo(FrameBytes, MaxFrameLen) :
          framer = [bytes |-> bytes, rest |-> bytes,
                    buffer |-> <<>>, lines |-> <<>>]

\* The next chunk arrives: any non-empty prefix of what is still to come.
FramePush ==
    /\ \E n \in 1..Len(framer.rest) :
          LET out == PushChunk(SubSeq(framer.rest, 1, n), framer.buffer) IN
          framer' = [bytes |-> framer.bytes,
                     rest |-> SubSeq(framer.rest, n + 1, Len(framer.rest)),
                     buffer |-> out.buffer,
                     lines |-> framer.lines \o out.lines]
    /\ UNCHANGED <<bridge, assembler>>

FrameNext == FramePush

FrameSpec == FrameInit /\ [][FrameNext]_vars

\* ---------------------------------------------- the event assembly alone

\* Number of lines fed to the event assembly.
MaxLines == 4

\* The lines fed: "", "data:a", "data: a b ", "data:", "data:  ", "event:x",
\* ": data:a" and " ".  None holds an LF or ends with a CR, as the framing
\* leaves them.
LineBlank == <<>>
LineA == <<100, 97, 116, 97, 58, 97>>
LineAB == <<100, 97, 116, 97, 58, 32, 97, 32, 98, 32>>
LineNoData == <<100, 97, 116, 97, 58>>
LineSpaces == <<100, 97, 116, 97, 58, 32, 32>>
LineEvent == <<101, 118, 101, 110, 116, 58, 120>>
LineComment == <<58, 32, 100, 97, 116, 97, 58, 97>>
LineSpace == <<32>>

TestLines == {LineBlank, LineA, LineAB, LineNoData, LineSpaces, LineEvent,
              LineComment, LineSpace}

AssembleInit ==
    /\ Idle
    /\ framer = FramerIdle
    /\ assembler = AssemblerIdle

\* The body of the while-let loop runs for one more line.
AssemblePush ==
    /\ Len(assembler.lines) < MaxLines
    /\ \E line \in TestLines :
          LET fed == FeedLine(line, assembler.event_data) IN
          assembler' = [lines |-> Append(assembler.lines, line),
                        event_data |-> fed.event_data,
                        sent |-> assembler.sent \o fed.sent]
    /\ UNCHANGED <<bridge, framer>>

AssembleNext == AssemblePush

AssembleSpec == AssembleInit /\ [][AssembleNext]_vars

\* =================================================================
\* Properties
\* =================================================================

Last(s) == s[Len(s)]

IsTerminal(e) == e.event \in {"Disconnected", "Error"}

\* The call has written its id to active_id.
Registered(t) == pc[t] \notin {"idle", "store"}

\* The call is in its read loop.
Streaming(t) == pc[t] \in {"check", "await"}

MessagesOf(es) == SelectSeq(es, LAMBDA e : e.event = "Message")

\* The Messages a call has to have sent by now: those completed by the blank
\* lines of the text it has received, in the order of these blank lines, and
\* after the end of the stream the data then pending.
MessagesDue(t) ==
    LET whole == DrainLines(received[t], <<>>, <<>>) IN
    IF /\ events[t] # <<>>
       /\ Last(events[t]) = Disconnected(StreamEnded)
       /\ whole.event_data # <<>>
    THEN whole.sent \o <<Message(whole.event_data)>>
    ELSE whole.sent

\* Connected is sent first or not at all, no Message without it, the
\* Messages are the due ones in their order, and a terminal event has
\* nothing after it.
InProductionOrder(t) ==
    /\ \A i \in 1..Len(events[t]) :
          /\ events[t][i].event = "Connected" => i = 1
          /\ events[t][i].event = "Message" => events[t][1] = Connected
          /\ IsTerminal(events[t][i]) => i = Len(events[t]) /\ pc[t] = "done"
    /\ MessagesOf(events[t]) = MessagesDue(t)

EndsWithTerminal(t) == events[t] # <<>> /\ IsTerminal(Last(events[t]))

\* C1 as stated: the events of every sse_connect call are in production
\* order (Connected before any Message, the Messages in the order in which
\* their blank lines arrived), and a call that has returned has sent exactly
\* one terminal event, the last of its events.
C1_ExactlyOneTerminalEvent ==
    \A t \in Calls :
        /\ InProductionOrder(t)
        /\ pc[t] = "done" => EndsWithTerminal(t)

\* C1 amended: the same order, and a call that has returned has sent exactly
\* one terminal event, the last of its events, unless the HTTP client could
\* not be built: that call returns Err and has sent no event at all.
C1_EventOrder ==
    \A t \in Calls :
        /\ InProductionOrder(t)
        /\ pc[t] = "done" =>
              \/ EndsWithTerminal(t)
              \/ events[t] = <<>> /\ ret[t] = "Err"

\* A call has sent Connected, two Messages and its terminal event.
C1_Witness ==
    \E t \in Calls :
        /\ pc[t] = "done"
        /\ Len(events[t]) = 4
        /\ events[t][1] = Connected
        /\ events[t][2].event = "Message"
        /\ events[t][3].event = "Message"
        /\ events[t][2] # events[t][3]
        /\ IsTerminal(events[t][4])

\* C2 as stated: once a disconnect has completed, a call whose id had been
\* assigned before it fails its next liveness check: it sends
\* Disconnected "Disconnected by client", and nothing more, and returns.
C2_CancelledFailsNextCheck ==
    [][\A t \in Calls :
          (t \in cancelled /\ pc[t] = "check" /\ pc'[t] # "check") =>
              /\ pc'[t] = "done"
              /\ events'[t] = events[t] \o <<Disconnected(ByClient)>>]_vars

\* C3 as stated: when two calls have registered and are still running, and
\* no disconnect ran since the later id was assigned, active_id is the
\* later (larger) id.
C3_LaterConnectIsActive ==
    \A a, b \in Calls :
        (/\ Registered(a) /\ Registered(b)
         /\ ret[a] = "none" /\ ret[b] = "none"
         /\ conn_id[a] < conn_id[b]
         /\ conn_id[b] = current_id
         /\ b \notin cancelled)
        => active_id = conn_id[b]

\* C4 as stated: registration is one step: the step that increments
\* current_id also makes the new id the active one, so that no state lies
\* between the increment and the store to active_id.
C4_RegistrationAtomic ==
    [][current_id' # current_id => active_id' = current_id']_vars

\* C5: an assigned id is at least 1, the ids grow strictly in the order of
\* the calls, and current_id is the number of ids assigned so far: it is
\* never reset, whatever disconnects and returns lie in between.
C5_IdsStrictlyIncreasing ==
    /\ \A t \in Issued : conn_id[t] >= 1
    /\ \A t, u \in Issued : t < u => conn_id[t] < conn_id[u]
    /\ current_id = Cardinality(Issued)

\* Two ids have been assigned with a disconnect between the two, and the
\* first call has returned.
C5_Witness ==
    /\ Issued = {1, 2}
    /\ cancelled = {1}
    /\ pc[1] = "done"
    /\ conn_id[2] = 2

\* The call registered, and active_id is not its id any more: a disconnect
\* or another call's registration has overwritten it.
Invalidated(t) == Registered(t) /\ active_id # conn_id[t]

\* C6 as stated: a call made after a disconnect completed (the disconnect
\* ran when an earlier id was assigned and this one was not), with no
\* disconnect and no connect after it, is the active one as long as it runs:
\* it passes its liveness checks.
C6_UnaffectedByEarlierDisconnect ==
    \A b \in Calls :
        (/\ Registered(b) /\ ret[b] = "none"
         /\ \E a \in cancelled : conn_id[a] < conn_id[b]
         /\ b \notin cancelled
         /\ conn_id[b] = current_id)
        => active_id = conn_id[b]

\* C7 as stated: a call that returned Err has not sent Connected.
C7_ErrOnlyBeforeConnected ==
    \A t \in Calls :
        ret[t] = "Err" => \A i \in 1..Len(events[t]) : events[t][i] # Connected

\* C7 amended: a call returns Err exactly when it ends with an Error event
\* or, having sent nothing, on the failure to build the client; it returns
\* Ok exactly when it ends with Disconnected.  So a read error or a timeout
\* after Connected is a terminal Error event and an Err return as well.
C7_ErrReturnedWithErrorEvent ==
    \A t \in Calls :
        /\ ret[t] = "Err" <=>
              /\ pc[t] = "done"
              /\ events[t] = <<>> \/ Last(events[t]).event = "Error"
        /\ ret[t] = "Ok" <=>
              /\ pc[t] = "done"
              /\ events[t] # <<>>
              /\ Last(events[t]).event = "Disconnected"

\* A call has sent Connected, then timed out: Error is its last event and
\* it returned Err.
C7_Witness ==
    \E t \in Calls :
        /\ ret[t] = "Err"
        /\ events[t] # <<>>
        /\ events[t][1] = Connected
        /\ Last(events[t]) = Error(ReadTimeoutMessage)

\* C8 as stated: a call in its read loop whose id has been invalidated sends
\* no Error event.
C8_NoErrorAfterInvalidation ==
    [][\A t \in Calls :
          (Streaming(t) /\ Invalidated(t) /\ events'[t] # events[t]) =>
              Last(events'[t]).event # "Error"]_vars

\* C8 amended: a call in its read loop whose id has been invalidated ends,
\* at its next liveness check, with Disconnected "Disconnected by client"
\* and Ok; it sends Error only as the outcome of the chunk await during
\* which it was invalidated (a read error or the timeout).
C8_CancellationIsDisconnected ==
    [][\A t \in Calls :
          (Streaming(t) /\ Invalidated(t) /\ pc'[t] # pc[t]) =>
              /\ pc[t] = "check" =>
                    /\ events'[t] = events[t] \o <<Disconnected(ByClient)>>
                    /\ pc'[t] = "done"
                    /\ ret'[t] = "Ok"
              /\ (events'[t] # events[t] /\ Last(events'[t]).event = "Error")
                    => pc[t] = "await"]_vars

\* A call streamed, was invalidated by a disconnect, and ended with
\* Disconnected "Disconnected by client".
C8_Witness ==
    \E t \in Calls :
        /\ t \in cancelled
        /\ ret[t] = "Ok"
        /\ events[t][1] = Connected
        /\ Last(events[t]) = Disconnected(ByClient)

\* C9: a disconnect can run in every state; it leaves active_id at 0 and
\* everything else of the program as it was (current_id, every call's
\* position, id, result and events); run again right after itself it
\* changes nothing.
C9_DisconnectIdempotent ==
    /\ []ENABLED Disconnect
    /\ [][last_op' = "disconnect" =>
            /\ active_id' = 0
            /\ UNCHANGED <<current_id, pc, conn_id, ret, events, buffer,
                           event_data>>
            /\ last_op = "disconnect" => UNCHANGED active_id]_vars

\* A disconnect has just run while a call is awaiting its next chunk: it
\* returned without waiting for that call.
C9_Witness ==
    /\ last_op = "disconnect"
    /\ active_id = 0
    /\ \E t \in Calls : pc[t] = "await" /\ conn_id[t] = current_id

\* C10: a call in its read loop whose id has been invalidated returns, if
\* its awaits resolve; from then on each of its steps is either the
\* resolution of the await in progress or its return, so that it returns
\* at the liveness check after that resolution at the latest.
C10_CancellationObserved ==
    /\ \A t \in Calls : (Streaming(t) /\ Invalidated(t)) ~> (pc[t] = "done")
    /\ [][\A t \in Calls :
            (Streaming(t) /\ Invalidated(t) /\ pc'[t] # pc[t]) =>
                \/ pc'[t] = "done"
                \/ pc[t] = "await" /\ pc'[t] = "check"]_vars

\* A call received a Message after a disconnect had invalidated it, and
\* then returned at its liveness check.
C10_Witness ==
    \E t \in Calls :
        /\ pc[t] = "done"
        /\ active_id = 0
        /\ Len(events[t]) = 3
        /\ events[t][2].event = "Message"
        /\ events[t][3] = Disconnected(ByClient)

\* C11: when the stream ends, the call sends the pending event_data, if
\* there is any, as one Message, then Disconnected "Stream ended" and
\* nothing else, and returns Ok; with no pending data it sends the notice
\* alone.
C11_EofFlush ==
    [][\A t \in Calls :
          (pc[t] = "await" /\ cause'[t] = "end") =>
              /\ ret'[t] = "Ok"
              /\ Last(events'[t]) = Disconnected(StreamEnded)
              /\ Len(events'[t]) =
                    Len(events[t]) + (IF event_data[t] = <<>> THEN 1 ELSE 2)
              /\ SubSeq(events'[t], 1, Len(events[t])) = events[t]
              /\ event_data[t] # <<>> =>
                    events'[t][Len(events[t]) + 1] =
                        Message(event_data[t])]_vars

\* The stream of a call ended after "data: a\n", with no blank line: the
\* call sent Message "a" and the notice.
C11_Witness ==
    \E t \in Calls :
        /\ cause[t] = "end"
        /\ received[t] = Utf8Lossy(ChunkA)
        /\ events[t] = <<Connected, Message(<<97>>), Disconnected(StreamEnded)>>

\* C12 as stated: once a byte sequence has been fed in chunks, however it
\* was cut, the lines produced are those produced by feeding it as a single
\* chunk.
C12_FramingIndependentOfSplit ==
    framer.rest = <<>> =>
        framer.lines = PushChunk(framer.bytes, <<>>).lines

\* The text without its leading and its trailing whitespace: what lies
\* between its first and its last character that is not whitespace.
Core(s) ==
    LET solid == {i \in 1..Len(s) : ~IsWhitespace(s[i])} IN
    IF solid = {} THEN <<>>
    ELSE SubSeq(s, CHOOSE i \in solid : \A j \in solid : i <= j,
                   CHOOSE i \in solid : \A j \in solid : i >= j)

IsDataLine(line) == HasPrefix(line, DataPrefix)

\* The payload of a data: line.
Payload(line) == Core(StripPrefix(line, DataPrefix))

\* The payloads of the data: lines of a block that are not empty, in order.
RECURSIVE Payloads(_)
Payloads(block) ==
    IF block = <<>> THEN <<>>
    ELSE (IF IsDataLine(block[1]) /\ Payload(block[1]) # <<>>
          THEN <<Payload(block[1])>> ELSE <<>>) \o Payloads(Tail(block))

\* The texts joined with LF.
RECURSIVE Join(_)
Join(texts) ==
    IF texts = <<>> THEN <<>>
    ELSE IF Len(texts) = 1 THEN texts[1]
    ELSE texts[1] \o <<LF>> \o Join(Tail(texts))

\* The reference assembler: the lines are cut into blocks at the blank
\* lines; a block ended by a blank line gives one Message, its payloads
\* joined, if it has a payload, and nothing otherwise; the payloads after
\* the last blank line are pending.
RECURSIVE Reference(_)
Reference(lines) ==
    LET blank == Find(lines, <<>>) IN
    IF blank = 0
    THEN [sent |-> <<>>, pending |-> Join(Payloads(lines))]
    ELSE LET block == Payloads(SubSeq(lines, 1, blank - 1))
             rest == Reference(SubSeq(lines, blank + 1, Len(lines)))
         IN [sent |-> (IF block # <<>> THEN <<Message(Join(block))>>
                       ELSE <<>>) \o rest.sent,
             pending |-> rest.pending]

\* C13: whatever lines have been fed, the Messages sent are those of the
\* reference assembler, and event_data is what it holds pending.
C13_AssemblyMatchesReference ==
    /\ assembler.sent = Reference(assembler.lines).sent
    /\ assembler.event_data = Reference(assembler.lines).pending

\* "data:a", "data:", "data: a b " and a blank line have been fed: one
\* Message "a\na b" has been sent.
C13_Witness ==
    /\ assembler.lines = <<LineA, LineNoData, LineAB, LineBlank>>
    /\ assembler.sent = <<Message(<<97, LF, 97, 32, 98>>)>>
    /\ assembler.event_data = <<>>

\* The parts `what` occur in the text, one after the other.
Mentions(text, what) ==
    \E i \in 1..(Len(text) - Len(what) + 1) :
        SubSeq(text, i, i + Len(what) - 1) = what

TerminalsOf(es) == SelectSeq(es, IsTerminal)

\* C14: a call whose await of the next chunk timed out has returned, has
\* sent exactly one terminal event, an Error whose message holds the
\* duration of 90 s, as its last event, and sends nothing after it.
C14_IdleTimeout ==
    /\ [](\A t \in Calls :
            cause[t] = "timeout" =>
                /\ pc[t] = "done"
                /\ events[t][1] = Connected
                /\ Len(TerminalsOf(events[t])) = 1
                /\ Last(events[t]).event = "Error"
                /\ READ_TIMEOUT = 90
                /\ Mentions(Last(events[t]).text,
                            <<"9", "0", "s without data)">>))
    /\ [][\A t \in Calls :
            cause[t] = "timeout" =>
                events'[t] = events[t] /\ pc'[t] = "done"]_vars

\* The await of a call that had received a Message timed out, and a
\* disconnect ran after that.
C14_Witness ==
    \E t \in Calls :
        /\ cause[t] = "timeout"
        /\ Len(events[t]) = 3
        /\ events[t][2].event = "Message"
        /\ events[t][3] = Error(ReadTimeoutMessage)
        /\ last_op = "disconnect"

\* What feeding a data: line with this payload does: a payload that is not
\* empty is appended to event_data, after an LF if there is data already,
\* an empty one changes nothing, and no Message is sent.
Appends(payload) ==
    /\ assembler'.sent = assembler.sent
    /\ assembler'.event_data =
          IF payload = <<>> THEN assembler.event_data
          ELSE IF assembler.event_data = <<>> THEN payload
          ELSE assembler.event_data \o <<LF>> \o payload

\* The line just fed.
Fed == Last(assembler'.lines)

\* C16 as stated: the payload of a data: line is the text after the prefix
\* without its leading whitespace, the trailing whitespace is kept.
C16_OnlyLeadingWhitespaceRemoved ==
    [][(assembler'.lines # assembler.lines /\ IsDataLine(Fed)) =>
          Appends(TrimStart(StripPrefix(Fed, DataPrefix)))]_vars

\* C16 amended: the payload of a data: line is the text after the prefix
\* without its leading and without its trailing whitespace, the whitespace
\* in between is kept; the line counts as one without data when nothing
\* but whitespace follows the prefix.
C16_SurroundingWhitespaceRemoved ==
    [][(assembler'.lines # assembler.lines /\ IsDataLine(Fed)) =>
          Appends(Core(StripPrefix(Fed, DataPrefix)))]_vars

\* "data:a" and "data: a b " have been fed: event_data is "a\na b", with
\* the space between a and b and without the one after b.
C16_Witness ==
    /\ assembler.lines = <<LineA, LineAB>>
    /\ assembler.event_data = <<97, LF, 97, 32, 98>>

\* The lines the framing has cut off the text a call has received.
LinesOf(t) == SplitLines(received[t], <<>>).lines

\* The lines the step cuts off: those of the buffer with the text the step
\* receives.
LinesCut(t) ==
    SplitLines(buffer[t] \o SubSeq(received'[t], Len(received[t]) + 1,
                                   Len(received'[t])), <<>>).lines

BlankLines(lines) == SelectSeq(lines, LAMBDA l : l = <<>>)

\* C17: a step sends Messages only when it processes a chunk, at most one
\* for each blank line of that chunk, or when the stream ends with data
\* pending; a call ended by a read error, the timeout or an observed
\* cancellation has sent the Messages completed by blank lines and no
\* other, whatever data was pending.
C17_NoPartialMessage ==
    /\ [](\A t \in Calls :
            cause[t] \in {"error", "timeout", "cancelled"} =>
                MessagesOf(events[t]) = Reference(LinesOf(t)).sent)
    /\ [][\A t \in Calls :
            LET before == Len(MessagesOf(events[t]))
                after == Len(MessagesOf(events'[t]))
            IN after # before =>
                  /\ pc[t] = "await"
                  /\ \/ /\ pc'[t] = "check"
                        /\ after - before <= Len(BlankLines(LinesCut(t)))
                     \/ /\ cause'[t] = "end"
                        /\ event_data[t] # <<>>
                        /\ after = before + 1]_vars

\* A call had received "data: a\n" when a read error ended it: it has sent
\* no Message, and "a" was pending.
C17_Witness ==
    \E t \in Calls :
        /\ cause[t] = "error"
        /\ event_data[t] = <<97>>
        /\ events[t] = <<Connected, Error(StreamErrorMessage)>>

\* The data pending at call t, as the one data: line that yields it.
Pending(t) ==
    IF event_data[t] = <<>> THEN <<>>
    ELSE <<DataPrefix \o event_data[t]>>

\* The step is the arrival of a chunk at call t.
Receives(t) == pc[t] = "await" /\ pc'[t] = "check"

\* C18: a chunk that arrives at a call is processed whole, whether or not
\* the call is still the active one: all its text is taken up, the Messages
\* sent are all those its lines complete, and the call goes on to the top
\* of the loop without a terminal event.  Only the step taken there sends
\* Disconnected "Disconnected by client", and a step that changes active_id
\* changes nothing of a call in its read loop.
C18_CancellationAtLoopTopOnly ==
    [][\A t \in Calls :
          /\ Receives(t) =>
                LET whole == Reference(Pending(t) \o LinesCut(t))
                IN /\ events'[t] = events[t] \o whole.sent
                   /\ event_data'[t] = whole.pending
                   /\ ret'[t] = "none"
          /\ (/\ events'[t] # events[t]
              /\ Last(events'[t]) = Disconnected(ByClient))
                => pc[t] = "check" /\ Invalidated(t)
          /\ (active_id' # active_id /\ Streaming(t)) =>
                /\ pc'[t] = pc[t]
                /\ events'[t] = events[t]
                /\ buffer'[t] = buffer[t]
                /\ event_data'[t] = event_data[t]]_vars

\* A disconnect ran while a call was awaiting its next chunk; the chunk
\* then arrived and its Message "b" was sent, and the call is at the top of
\* the loop.
C18_Witness ==
    \E t \in Calls :
        /\ active_id = 0
        /\ pc[t] = "check"
        /\ late[t] = <<Message(<<98>>)>>
        /\ Last(events[t]) = Message(<<98>>)

\* The step is one of call t.
StepOf(t) == pc'[t] # pc[t]

\* C19: a call writes the shared ids only when it registers.  No step it
\* takes after its store to active_id changes current_id or active_id,
\* whichever way it ends; the store is done also by the call that then
\* fails to build its client; and when active_id names a call that has
\* returned, only a disconnect or the store of another call changes it.
C19_IdsWrittenAtRegistrationOnly ==
    [][\A t \in Calls :
          /\ (StepOf(t) /\ Registered(t)) =>
                current_id' = current_id /\ active_id' = active_id
          /\ (StepOf(t) /\ pc[t] = "store") =>
                current_id' = current_id /\ active_id' = conn_id[t]
          /\ (pc[t] = "done" /\ active_id = conn_id[t]
                             /\ active_id' # active_id) =>
                \/ last_op' = "disconnect"
                \/ \E u \in Calls \ {t} : StepOf(u) /\ pc[u] = "store"]_vars

\* The handshake of the later call failed while the earlier call was in its
\* read loop: active_id is still the id of the call that has returned.
C19_Witness ==
    \E t, u \in Calls :
        /\ cause[t] \in {"failed", "status"}
        /\ active_id = conn_id[t]
        /\ conn_id[u] < conn_id[t]
        /\ Streaming(u)

\* The text a call has received after the last LF.
Remainder(t) == SplitLines(received[t], <<>>).buffer

\* C20: when the stream of a call has ended, the text after the last LF is
\* still in its buffer and has not been fed to the assembly: the Messages
\* sent are those of the lines ended by an LF, the last one being the
\* data of these lines that was pending, if any.
C20_UnterminatedLineDiscarded ==
    \A t \in Calls :
        cause[t] = "end" =>
            LET whole == Reference(LinesOf(t)) IN
            /\ buffer[t] = Remainder(t)
            /\ MessagesOf(events[t]) =
                  whole.sent \o (IF whole.pending # <<>>
                                 THEN <<Message(whole.pending)>> ELSE <<>>)

\* The stream of a call ended after "\ndata:b\r\n\r\ndata:d": "data:d" was
\* left in the buffer, and no Message was sent after the one of the blank
\* line, "b".
C20_Witness ==
    \E t \in Calls :
        /\ cause[t] = "end"
        /\ buffer[t] = Append(DataPrefix, 100)
        /\ events[t] =
              <<Connected, Message(<<98>>), Disconnected(StreamEnded)>>

====
